---- MODULE Spec2Model ----
(***************************************************************************)
(* A model of src/finance_info_alphavantage.py: the three cached fetch     *)
(* functions (get_stock_price, get_historical_data, get_company_overview), *)
(* filter_by_period, and the Streamlit script's main flow.                 *)
(*                                                                         *)
(* Python strings are modelled in two ways.  Strings whose characters the  *)
(* code inspects (symbols, numeric fields) are sequences of one-character  *)
(* strings.  Messages are sequences of parts: [lit |-> text] for a literal *)
(* fragment of the source or of a provider text, [sym |-> chars] for an    *)
(* interpolated symbol, [exc |-> name] for str(e) of a caught exception.   *)
(* Python's None is the record None; a (value, error) pair is a record.    *)
(***************************************************************************)
EXTENDS Integers, Sequences, FiniteSets, TLC

\* Longest symbol string the fetch functions are applied to.
MaxSymLen == 2

\* Clicks of 'Get Stock Info' in one session.
MaxClicks == 1

VARIABLES
    p_op,           \* the function last applied to drawn arguments ("none" before any)
    p_args,         \* its arguments
    p_result,       \* what it returned
    pc,             \* "start" before the session's first script run, "idle" after a run
    symbol_text,    \* the text in the 'Enter Stock Symbol' input
    period_choice,  \* the selected period
    interval_choice,\* the selected interval
    search_button,  \* the button's value in the latest script run
    first_load,     \* 'first_load' in st.session_state
    cache,          \* the st.cache_data entries of the three fetch functions
    now,            \* the clock, in seconds
    clicks,         \* clicks of the button so far
    run             \* what the latest script run did

pvars == <<p_op, p_args, p_result>>
svars == <<pc, symbol_text, period_choice, interval_choice, search_button, first_load, cache, now, clicks, run>>
vars == <<pvars, svars>>

None == [none |-> TRUE]

RECURSIVE SeqsUpTo(_, _)
SeqsUpTo(S, n) ==
    IF n = 0 THEN {<<>>}
    ELSE LET shorter == SeqsUpTo(S, n - 1)
         IN  shorter \cup {Append(s, c) : s \in {t \in shorter : Len(t) = n - 1}, c \in S}

Range(s) == {s[i] : i \in 1..Len(s)}

(***************************************************************************)
(* Character-level strings: str.strip, str.isalnum, str.upper, float, int. *)
(***************************************************************************)
Digits == {"0", "1", "2", "3", "4", "5", "6", "7", "8", "9"}
LowerLetters == {"a", "b", "e", "i", "k", "m", "n", "o", "r", "t", "x"}
UpperLetters == {"A", "B", "E", "I", "K", "M", "N", "O", "R", "T", "X", "Z"}
Whitespace == {" "}

\* str.upper() on one character
UpperChar(c) ==
    CASE c = "a" -> "A" [] c = "b" -> "B" [] c = "e" -> "E" [] c = "i" -> "I"
      [] c = "k" -> "K" [] c = "m" -> "M" [] c = "n" -> "N" [] c = "o" -> "O"
      [] c = "r" -> "R" [] c = "t" -> "T" [] c = "x" -> "X"
      [] OTHER -> c

\* symbol.upper()
upper(s) == [i \in 1..Len(s) |-> UpperChar(s[i])]

\* s.isalnum(): non-empty and every character a letter or a digit
isalnum(s) ==
    Len(s) > 0 /\ \A i \in 1..Len(s) : s[i] \in LowerLetters \cup UpperLetters \cup Digits

\* Python truthiness of s.strip(): some character is not whitespace
strip_truthy(s) == \E i \in 1..Len(s) : s[i] \notin Whitespace

\* `not symbol or not symbol.strip()`
IsBlank(s) == Len(s) = 0 \/ ~strip_truthy(s)

\* s.strip(chars): leading and trailing characters of `chars` removed
RECURSIVE lstrip(_, _)
lstrip(s, chars) ==
    IF Len(s) > 0 /\ s[1] \in chars THEN lstrip(Tail(s), chars) ELSE s

RECURSIVE rstrip(_, _)
rstrip(s, chars) ==
    IF Len(s) > 0 /\ s[Len(s)] \in chars THEN rstrip(SubSeq(s, 1, Len(s) - 1), chars) ELSE s

strip(s, chars) == rstrip(lstrip(s, chars), chars)

\* The unsigned body of a numeral after whitespace and one leading sign are removed.
Unsigned(s) ==
    LET t == strip(s, Whitespace)
    IN  IF Len(t) > 0 /\ t[1] \in {"-", "+"} THEN Tail(t) ELSE t

IsNegative(s) ==
    LET t == strip(s, Whitespace) IN Len(t) > 0 /\ t[1] = "-"

\* int(s) succeeds: optional sign, then one or more digits.
IsIntStr(s) ==
    LET u == Unsigned(s) IN Len(u) > 0 /\ \A i \in 1..Len(u) : u[i] \in Digits

\* float(s) succeeds: optional sign, digits with at most one point, at least one digit.
\* (Exponents, "inf", "nan" and underscores use characters outside the modelled values.)
IsFloatStr(s) ==
    LET u == Unsigned(s)
    IN  /\ \A i \in 1..Len(u) : u[i] \in Digits \cup {"."}
        /\ Cardinality({i \in 1..Len(u) : u[i] = "."}) <= 1
        /\ \E i \in 1..Len(u) : u[i] \in Digits

DigitVal(c) ==
    CASE c = "0" -> 0 [] c = "1" -> 1 [] c = "2" -> 2 [] c = "3" -> 3 [] c = "4" -> 4
      [] c = "5" -> 5 [] c = "6" -> 6 [] c = "7" -> 7 [] c = "8" -> 8 [] c = "9" -> 9

RECURSIVE DigitsVal(_)
DigitsVal(ds) ==
    IF Len(ds) = 0 THEN 0 ELSE 10 * DigitsVal(SubSeq(ds, 1, Len(ds) - 1)) + DigitVal(ds[Len(ds)])

\* Numbers are kept in units of 1/10000 so that a percentage divided by 100 stays exact.
\* int(s) for a string int() accepts, in units of 1/10000
int(s) == (IF IsNegative(s) THEN -1 ELSE 1) * DigitsVal(Unsigned(s)) * 10000

RECURSIVE Pow10(_)
Pow10(n) == IF n = 0 THEN 1 ELSE 10 * Pow10(n - 1)

\* float(s) for a string float() accepts with at most four decimals, in units of 1/10000
float(s) ==
    LET u == Unsigned(s)
        dots == {i \in 1..Len(u) : u[i] = "."}
        p == IF dots = {} THEN Len(u) + 1 ELSE CHOOSE i \in dots : TRUE
        whole == SubSeq(u, 1, p - 1)
        frac == SubSeq(u, p + 1, Len(u))
    IN  (IF IsNegative(s) THEN -1 ELSE 1)
          * (DigitsVal(whole) * 10000 + (DigitsVal(frac) * 10000) \div Pow10(Len(frac)))

(***************************************************************************)
(* Messages.                                                               *)
(***************************************************************************)
Lit(text) == [lit |-> text]
Sym(s) == [sym |-> s]
Exc(name) == [exc |-> name]
IsLit(part) == DOMAIN part = {"lit"}

\* `marker in text` for the literal fragments of the source and of provider texts
LitContains(text, marker) ==
    \/ text = marker
    \/ /\ marker = "Invalid API call"
       /\ text = "Invalid API call. Please retry or visit the documentation."
    \/ /\ marker = "API call frequency"
       /\ text = "Thank you for using Alpha Vantage! Our standard API call frequency is 5 calls per minute."

\* `marker in text.lower()` for the same fragments
LitLowerContains(text, marker) ==
    CASE marker = "network" ->
            text = "Network error: Unable to connect to Alpha Vantage. Please check your internet connection."
      [] marker = "connect" ->
            text \in {"Network error: Unable to connect to Alpha Vantage. Please check your internet connection.",
                      "Error initializing API connection: "}
      [] marker = "timeout" ->
            text = "Timeout error: The request to Alpha Vantage timed out. Please try again later."
      [] marker = "invalid symbol" ->
            text = "Error: Invalid symbol '"
      [] marker = "rate limit" ->
            text \in {"Rate limit reached. Alpha Vantage allows only 5 API calls per minute on the free tier. Please wait a minute and try again.",
                      "Rate limit reached. Alpha Vantage allows only 5 API calls per minute on the free tier."}
      [] OTHER -> FALSE

\* `marker in message`
Contains(msg, marker) ==
    \E i \in 1..Len(msg) : IsLit(msg[i]) /\ LitContains(msg[i].lit, marker)

\* `marker in message.lower()`
LowerContains(msg, marker) ==
    \E i \in 1..Len(msg) : IsLit(msg[i]) /\ LitLowerContains(msg[i].lit, marker)

\* A (value, error) pair as a fetch function returns it; net counts the requests it issued.
Pair(value, error, net) == [value |-> value, error |-> error, net |-> net]
Err(msg, net) == Pair(None, [msg |-> msg], net)
Ok(value, net) == Pair(value, None, net)

\* Python truthiness of an error: neither None nor the empty string
Truthy(error) == error # None /\ Len(error.msg) > 0

(***************************************************************************)
(* What requests.get and response.json() hand back.  A reply is either an  *)
(* exception of the transport, [exc |-> name], or [status, json] where     *)
(* json is [bad |-> TRUE] (json() raises ValueError) or a JSON value:      *)
(* [t |-> "null"], [t |-> "number"] (a non-zero number), [t |-> "list"] (a *)
(* non-empty list) or [t |-> "dict", d |-> f], f a function on its keys.   *)
(***************************************************************************)
Dict(f) == [t |-> "dict", d |-> f]
EmptyDict == Dict(<<>>)
IsDict(j) == j.t = "dict"
Keys(j) == DOMAIN j.d

\* Python truthiness of a JSON value
JsonTruthy(j) == IF IsDict(j) THEN Keys(j) # {} ELSE j.t # "null"

\* Texts the provider puts under "Error Message", "Note" and "Information"
InvalidCallText == <<Lit("Invalid API call. Please retry or visit the documentation.")>>
FrequencyText ==
    <<Lit("Thank you for using Alpha Vantage! Our standard API call frequency is 5 calls per minute.")>>
OtherText == <<Lit("Unexpected provider text.")>>
ProviderTexts == {<<>>, InvalidCallText, FrequencyText, InvalidCallText \o FrequencyText, OtherText}

\* The fields get_stock_price reads, in the order the result dict evaluates them
QuoteFields ==
    << [name |-> "price",              key |-> "05. price",              conv |-> "float"],
       [name |-> "change",             key |-> "09. change",             conv |-> "float"],
       [name |-> "change_percent",     key |-> "10. change percent",     conv |-> "percent"],
       [name |-> "previous_close",     key |-> "08. previous close",     conv |-> "float"],
       [name |-> "volume",             key |-> "06. volume",             conv |-> "int"],
       [name |-> "latest_trading_day", key |-> "07. latest trading day", conv |-> "str"],
       [name |-> "open",               key |-> "02. open",               conv |-> "float"],
       [name |-> "high",               key |-> "03. high",               conv |-> "float"],
       [name |-> "low",                key |-> "04. low",                conv |-> "float"] >>

\* The exception converting field i of quote_data raises, "none" if it converts
FieldFault(quote_data, i) ==
    LET fld == QuoteFields[i] IN
    IF fld.key \notin DOMAIN quote_data THEN "KeyError"
    ELSE LET v == quote_data[fld.key] IN
         CASE fld.conv = "float"   -> IF IsFloatStr(v) THEN "none" ELSE "ValueError"
           [] fld.conv = "percent" -> IF IsFloatStr(strip(v, {"%"})) THEN "none" ELSE "ValueError"
           [] fld.conv = "int"     -> IF IsIntStr(v) THEN "none" ELSE "ValueError"
           [] OTHER                -> "none"

\* The converted value of field i
FieldValue(quote_data, i) ==
    LET fld == QuoteFields[i]
        v == quote_data[fld.key]
    IN  CASE fld.conv = "float"   -> float(v)
          [] fld.conv = "percent" -> float(strip(v, {"%"})) \div 100
          [] fld.conv = "int"     -> int(v)
          [] OTHER                -> v

\* Lines 205-220: the result dict built from quote_data, or the first exception raised
ParseQuote(quote_data) ==
    LET faulty == {i \in 1..Len(QuoteFields) : FieldFault(quote_data, i) # "none"} IN
    IF faulty = {}
    THEN [fault |-> "none",
          result |-> [n \in {QuoteFields[i].name : i \in 1..Len(QuoteFields)} |->
                        LET i == CHOOSE j \in 1..Len(QuoteFields) : QuoteFields[j].name = n
                        IN  FieldValue(quote_data, i)]]
    ELSE LET first == CHOOSE i \in faulty : \A j \in faulty : i <= j
         IN  [fault |-> FieldFault(quote_data, first)]

\* Lines 172-176: the error get_stock_price returns before any request, None if it goes on
get_stock_price_validate(symbol) ==
    IF IsBlank(symbol)
    THEN [msg |-> <<Lit("Error: Please enter a valid stock symbol.")>>]
    ELSE IF ~isalnum(symbol)
    THEN [msg |-> <<Lit("Error: Stock symbol should only contain letters and numbers.")>>]
    ELSE None

\* get_stock_price_envelope with the rate-limit test made on "Error Message" as well
get_stock_price_envelope_rate_in_error(symbol, data) ==
    IF IsDict(data) /\ "Error Message" \in Keys(data)
    THEN IF Contains(data.d["Error Message"], "Invalid API call")
         THEN Err(<<Lit("Error: Invalid symbol '"), Sym(symbol),
                    Lit("'. Please enter a valid stock symbol.")>>, 1)
         ELSE IF Contains(data.d["Error Message"], "API call frequency")
         THEN Err(<<Lit("Rate limit reached. Alpha Vantage allows only 5 API calls per minute on the free tier. Please wait a minute and try again.")>>, 1)
         ELSE Err(data.d["Error Message"], 1)
    ELSE IF IsDict(data) /\ "Note" \in Keys(data)
    THEN IF Contains(data.d["Note"], "API call frequency")
         THEN Err(<<Lit("Rate limit reached. Alpha Vantage allows only 5 API calls per minute on the free tier. Please wait a minute and try again.")>>, 1)
         ELSE Err(data.d["Note"], 1)
    ELSE Err(<<Lit("Error: Could not fetch data for symbol '"), Sym(symbol),
               Lit("'. The symbol may be invalid or there might be an issue with the API.")>>, 1)

\* Lines 222-234: the checks after the 'Global Quote' block
get_stock_price_envelope(symbol, data) ==
    IF IsDict(data) /\ "Error Message" \in Keys(data)
    THEN IF Contains(data.d["Error Message"], "Invalid API call")
         THEN Err(<<Lit("Error: Invalid symbol '"), Sym(symbol),
                    Lit("'. Please enter a valid stock symbol.")>>, 1)
         ELSE Err(data.d["Error Message"], 1)
    ELSE IF IsDict(data) /\ "Note" \in Keys(data)
    THEN IF Contains(data.d["Note"], "API call frequency")
         THEN Err(<<Lit("Rate limit reached. Alpha Vantage allows only 5 API calls per minute on the free tier. Please wait a minute and try again.")>>, 1)
         ELSE Err(data.d["Note"], 1)
    ELSE Err(<<Lit("Error: Could not fetch data for symbol '"), Sym(symbol),
               Lit("'. The symbol may be invalid or there might be an issue with the API.")>>, 1)

\* Lines 178-236: get_stock_price once the symbol has passed its checks, on the reply
get_stock_price_fetch(symbol, reply) ==
    IF "exc" \in DOMAIN reply
    THEN CASE reply.exc = "ConnectionError" ->
                Err(<<Lit("Network error: Unable to connect to Alpha Vantage. Please check your internet connection.")>>, 1)
           [] reply.exc = "Timeout" ->
                Err(<<Lit("Timeout error: The request to Alpha Vantage timed out. Please try again later.")>>, 1)
           [] OTHER ->
                Err(<<Lit("Request error: "), Exc(reply.exc)>>, 1)
    ELSE IF "bad" \in DOMAIN reply.json
    THEN Err(<<Lit("Error: Invalid response from Alpha Vantage API. The service might be down.")>>, 1)
    ELSE LET data == reply.json IN
         IF ~JsonTruthy(data)
         THEN Err(<<Lit("Error: Empty response from Alpha Vantage API. The service might be experiencing issues.")>>, 1)
         ELSE IF data.t = "number"
         THEN \* `"Global Quote" in data` raises TypeError, caught at line 235
              Err(<<Lit("Error: "), Exc("TypeError")>>, 1)
         ELSE IF IsDict(data) /\ "Global Quote" \in Keys(data) /\ DOMAIN data.d["Global Quote"] # {}
         THEN LET quote_data == data.d["Global Quote"] IN
              IF Cardinality(DOMAIN quote_data) <= 1
              THEN Err(<<Lit("Error: No data found for symbol '"), Sym(symbol),
                         Lit("'. Please check if the symbol is correct.")>>, 1)
              ELSE IF "05. price" \in DOMAIN quote_data
              THEN LET parsed == ParseQuote(quote_data) IN
                   CASE parsed.fault = "none" -> Ok(parsed.result, 1)
                     [] parsed.fault = "ValueError" ->
                          Err(<<Lit("Error: Could not parse stock data. "), Exc("ValueError")>>, 1)
                     [] OTHER -> Err(<<Lit("Error: "), Exc(parsed.fault)>>, 1)
              ELSE get_stock_price_envelope(symbol, data)
         ELSE get_stock_price_envelope(symbol, data)

\* Lines 169-236
get_stock_price(symbol, reply) ==
    LET invalid == get_stock_price_validate(symbol) IN
    IF invalid # None THEN Pair(None, invalid, 0) ELSE get_stock_price_fetch(symbol, reply)

(***************************************************************************)
(* get_company_overview.                                                   *)
(***************************************************************************)
\* len(data) of a JSON value the code takes the length of; a list holds one element
JsonLen(j) == IF IsDict(j) THEN Cardinality(Keys(j)) ELSE 1

\* get_company_overview taking any body that has a 'Symbol' for the company's record
get_company_overview_any_symbol(symbol, reply) ==
    IF IsBlank(symbol)
    THEN Err(<<Lit("Error: Please enter a valid stock symbol.")>>, 0)
    ELSE IF "exc" \in DOMAIN reply
    THEN Err(<<Lit("Request error: "), Exc(reply.exc)>>, 1)
    ELSE IF "bad" \in DOMAIN reply.json
    THEN Err(<<Lit("Error: Invalid response from API. The service might be down.")>>, 1)
    ELSE IF JsonTruthy(reply.json) /\ reply.json.t = "number"
    THEN Err(<<Lit("Error fetching company overview: "), Exc("TypeError")>>, 1)
    ELSE IF /\ JsonTruthy(reply.json) /\ JsonLen(reply.json) > 1
            /\ IsDict(reply.json) /\ "Symbol" \in Keys(reply.json)
    THEN Ok(reply.json.d, 1)
    ELSE Err(<<Lit("Error: No company information found for symbol '"), Sym(symbol),
               Lit("'. Please check if the symbol is correct.")>>, 1)

\* Lines 298-342
get_company_overview(symbol, reply) ==
    IF IsBlank(symbol)
    THEN Err(<<Lit("Error: Please enter a valid stock symbol.")>>, 0)
    ELSE IF "exc" \in DOMAIN reply
    THEN CASE reply.exc = "ConnectionError" ->
                Err(<<Lit("Network error: Unable to connect to Alpha Vantage. Please check your internet connection.")>>, 1)
           [] reply.exc = "Timeout" ->
                Err(<<Lit("Timeout error: The request to Alpha Vantage timed out. Please try again later.")>>, 1)
           [] OTHER ->
                Err(<<Lit("Request error: "), Exc(reply.exc)>>, 1)
    ELSE IF "bad" \in DOMAIN reply.json
    THEN Err(<<Lit("Error: Invalid response from API. The service might be down.")>>, 1)
    ELSE LET data == reply.json IN
         IF JsonTruthy(data) /\ data.t = "number"
         THEN \* len(data) raises TypeError, caught at line 341
              Err(<<Lit("Error fetching company overview: "), Exc("TypeError")>>, 1)
         ELSE IF /\ JsonTruthy(data) /\ JsonLen(data) > 1
                 /\ IsDict(data) /\ "Symbol" \in Keys(data) /\ data.d["Symbol"] = symbol
         THEN Ok(data.d, 1)
         ELSE IF ~JsonTruthy(data) \/ JsonLen(data) <= 1
         THEN Err(<<Lit("Error: No company information found for symbol '"), Sym(symbol),
                    Lit("'. Please check if the symbol is correct.")>>, 1)
         ELSE IF "Error Message" \in Keys(data)
         THEN IF Contains(data.d["Error Message"], "Invalid API call")
              THEN Err(<<Lit("Error: Invalid symbol '"), Sym(symbol),
                         Lit("'. Please enter a valid stock symbol.")>>, 1)
              ELSE Err(data.d["Error Message"], 1)
         ELSE IF "Note" \in Keys(data)
         THEN IF Contains(data.d["Note"], "API call frequency")
              THEN Err(<<Lit("Rate limit reached. Alpha Vantage allows only 5 API calls per minute on the free tier.")>>, 1)
              ELSE Err(data.d["Note"], 1)
         ELSE Err(<<Lit("Error: Could not fetch company data for symbol '"), Sym(symbol), Lit("'.")>>, 1)

(***************************************************************************)
(* get_historical_data.  The alpha_vantage TimeSeries client is outside    *)
(* the repository; what it can do is an outcome: [init_exc |-> name] (the  *)
(* constructor raises), [frame |-> f] (a DataFrame, most recent row        *)
(* first), or [raises |-> name, text |-> message].  A DataFrame is         *)
(* [columns |-> names, index |-> dates].                                   *)
(***************************************************************************)
\* data.rename(columns={...}) at lines 268-274
RenameColumn(c) ==
    CASE c = "1. open"   -> "Open"
      [] c = "2. high"   -> "High"
      [] c = "3. low"    -> "Low"
      [] c = "4. close"  -> "Close"
      [] c = "5. volume" -> "Volume"
      [] OTHER           -> c

rename(frame) ==
    [frame EXCEPT !.columns = [i \in 1..Len(frame.columns) |-> RenameColumn(frame.columns[i])]]

\* Lines 240-294
get_historical_data(symbol, interval, outcome) ==
    IF IsBlank(symbol)
    THEN Err(<<Lit("Error: Please enter a valid stock symbol.")>>, 0)
    ELSE IF "init_exc" \in DOMAIN outcome
    THEN Err(<<Lit("Error initializing API connection: "), Exc(outcome.init_exc)>>, 0)
    ELSE IF interval \notin {"daily", "weekly", "monthly"}
    THEN Err(<<Lit("Invalid interval: "), Lit(interval)>>, 0)
    ELSE IF "frame" \in DOMAIN outcome
    THEN IF Len(outcome.frame.index) = 0
         THEN Err(<<Lit("No historical data available for symbol '"), Sym(symbol), Lit("'.")>>, 1)
         ELSE Ok(rename(outcome.frame), 1)
    ELSE IF outcome.raises = "ValueError"
    THEN Err(<<Lit("Error: Invalid parameter - ")>> \o outcome.text, 1)
    ELSE IF Contains(outcome.text, "Invalid API call")
    THEN Err(<<Lit("Error: '"), Sym(symbol), Lit("' is not a valid stock symbol.")>>, 1)
    ELSE IF Contains(outcome.text, "API call frequency")
    THEN Err(<<Lit("Rate limit reached. Alpha Vantage allows only 5 API calls per minute on the free tier.")>>, 1)
    ELSE Err(<<Lit("Error fetching historical data: ")>> \o outcome.text, 1)

(***************************************************************************)
(* filter_by_period.                                                       *)
(***************************************************************************)
\* data.iloc[:n]: the first n rows, all of them when there are fewer
iloc_head(frame, n) ==
    [frame EXCEPT !.index = SubSeq(frame.index, 1, IF n < Len(frame.index) THEN n ELSE Len(frame.index))]

\* filter_by_period with a month taken as 20 trading days
filter_by_period_month_of_20(data, period) ==
    IF data = None THEN None
    ELSE CASE period = "1d" -> iloc_head(data, 1)
           [] period = "5d" -> iloc_head(data, 5)
           [] period = "1m" -> iloc_head(data, 20)
           [] period = "3m" -> iloc_head(data, 63)
           [] period = "6m" -> iloc_head(data, 126)
           [] period = "1y" -> iloc_head(data, 252)
           [] period = "5y" -> iloc_head(data, 1260)
           [] OTHER         -> data

\* Lines 345-374
filter_by_period(data, period) ==
    IF data = None THEN None
    ELSE CASE period = "1d" -> iloc_head(data, 1)
           [] period = "5d" -> iloc_head(data, 5)
           [] period = "1m" -> iloc_head(data, 21)
           [] period = "3m" -> iloc_head(data, 63)
           [] period = "6m" -> iloc_head(data, 126)
           [] period = "1y" -> iloc_head(data, 252)
           [] period = "5y" -> iloc_head(data, 1260)
           [] OTHER         -> data

(***************************************************************************)
(* The replies the quote endpoint is given to make.                        *)
(***************************************************************************)
\* An optional value: <<>> when absent, <<v>> when present
Opt(S) == {<<>>} \cup {<<v>> : v \in S}

Text15 == <<"1", ".", "5">>
Text100 == <<"1", "0", "0">>
Text15Percent == <<"1", ".", "5", "%">>
TextNone == <<"N", "o", "n", "e">>
TextDay == <<"2", "0", "2", "5">>
FieldTexts == {Text15, Text100, Text15Percent, TextNone}

QuoteKeys ==
    {"01. symbol", "02. open", "03. high", "04. low", "05. price", "06. volume",
     "07. latest trading day", "08. previous close", "09. change", "10. change percent"}

\* A complete 'Global Quote' as the provider sends it for `symbol`
GoodQuote(symbol) ==
    [k \in QuoteKeys |->
        CASE k = "01. symbol"             -> symbol
          [] k = "06. volume"             -> Text100
          [] k = "07. latest trading day" -> TextDay
          [] k = "10. change percent"     -> Text15Percent
          [] OTHER                        -> Text15]

\* 'Global Quote' values: complete, one key missing, one value replaced, at most one key
QuoteEnvelopes(symbol) ==
    LET good == GoodQuote(symbol) IN
         {good}
    \cup {[k \in QuoteKeys \ {gone} |-> good[k]] : gone \in QuoteKeys}
    \cup {[good EXCEPT ![k] = v] : k \in QuoteKeys \ {"01. symbol"}, v \in FieldTexts}
    \cup {[k \in D |-> good[k]] : D \in {{}} \cup {{k} : k \in QuoteKeys}}

\* The JSON object with the given optional members
QuoteBody(gq, em, note, info) ==
    LET K ==      (IF Len(gq) = 1 THEN {"Global Quote"} ELSE {})
             \cup (IF Len(em) = 1 THEN {"Error Message"} ELSE {})
             \cup (IF Len(note) = 1 THEN {"Note"} ELSE {})
             \cup (IF Len(info) = 1 THEN {"Information"} ELSE {})
    IN  Dict([k \in K |->
                CASE k = "Global Quote"  -> gq[1]
                  [] k = "Error Message" -> em[1]
                  [] k = "Note"          -> note[1]
                  [] OTHER               -> info[1]])

QuoteBodies(symbol) ==
    {QuoteBody(gq, em, note, info) :
        gq \in Opt(QuoteEnvelopes(symbol)), em \in Opt(ProviderTexts),
        note \in Opt(ProviderTexts), info \in Opt({OtherText})}

NonDictJson == {[t |-> "null"], [t |-> "number"], [t |-> "list"]}
BadJson == [bad |-> TRUE]
TransportErrors == {[exc |-> "ConnectionError"], [exc |-> "Timeout"], [exc |-> "RequestException"]}
StatusCodes == {200, 500}

HttpReplies(bodies) ==
    TransportErrors
    \cup {[status |-> s, json |-> j] : s \in StatusCodes, j \in {BadJson} \cup NonDictJson \cup bodies}

QuoteReplies(symbol) == HttpReplies(QuoteBodies(symbol))

\* The reply of a call that issued no request
NoReply == [unused |-> TRUE]

(***************************************************************************)
(* The replies the overview endpoint is given to make.                     *)
(***************************************************************************)
TextName == <<"A", "c", "m", "e">>
TextWords == <<"T", "e", "c", "h">>
\* A symbol no request asks for: the provider answering about another company
OtherSymbol == <<"Z", "Z">>

\* The fundamentals the main flow renders, with the conversion each gets
OverviewFields ==
    << [key |-> "MarketCapitalization", conv |-> "int",   guarded |-> FALSE],
       [key |-> "PERatio",              conv |-> "str",   guarded |-> TRUE],
       [key |-> "EPS",                  conv |-> "float", guarded |-> TRUE],
       [key |-> "DividendYield",        conv |-> "float", guarded |-> TRUE],
       [key |-> "52WeekHigh",           conv |-> "float", guarded |-> FALSE],
       [key |-> "52WeekLow",            conv |-> "float", guarded |-> FALSE],
       [key |-> "Description",          conv |-> "str",   guarded |-> FALSE],
       [key |-> "Sector",               conv |-> "str",   guarded |-> FALSE],
       [key |-> "Industry",             conv |-> "str",   guarded |-> FALSE],
       [key |-> "FullTimeEmployees",    conv |-> "int",   guarded |-> FALSE],
       [key |-> "Exchange",             conv |-> "str",   guarded |-> FALSE] >>

OverviewFieldKeys == {OverviewFields[i].key : i \in 1..Len(OverviewFields)}

\* The fundamentals of a company as the provider sends them when it has them all
GoodFundamentals ==
    [k \in OverviewFieldKeys |->
        CASE k \in {"MarketCapitalization", "FullTimeEmployees"} -> Text100
          [] k \in {"PERatio", "EPS", "DividendYield", "52WeekHigh", "52WeekLow"} -> Text15
          [] OTHER -> TextWords]

\* The JSON object with the given optional members and the given fundamentals
OverviewBody(sym, name, em, note, info, fundamentals) ==
    LET K ==      (IF Len(sym) = 1 THEN {"Symbol"} ELSE {})
             \cup (IF Len(name) = 1 THEN {"Name"} ELSE {})
             \cup (IF Len(em) = 1 THEN {"Error Message"} ELSE {})
             \cup (IF Len(note) = 1 THEN {"Note"} ELSE {})
             \cup (IF Len(info) = 1 THEN {"Information"} ELSE {})
    IN  Dict([k \in K \cup DOMAIN fundamentals |->
                CASE k = "Symbol"        -> sym[1]
                  [] k = "Name"          -> name[1]
                  [] k = "Error Message" -> em[1]
                  [] k = "Note"          -> note[1]
                  [] k = "Information"   -> info[1]
                  [] OTHER               -> fundamentals[k]])

OverviewBodies(symbol) ==
    {OverviewBody(sym, name, em, note, info, <<>>) :
        sym \in Opt({symbol, OtherSymbol}), name \in Opt({TextName}),
        em \in Opt(ProviderTexts), note \in Opt(ProviderTexts), info \in Opt({OtherText})}

OverviewReplies(symbol) == HttpReplies(OverviewBodies(symbol))

(***************************************************************************)
(* What the TimeSeries client is given to do.                              *)
(***************************************************************************)
RawColumns == <<"1. open", "2. high", "3. low", "4. close", "5. volume">>

\* A DataFrame of n rows as the client returns it: dates n, n-1, ..., 1
RawFrame(n) == [columns |-> RawColumns, index |-> [i \in 1..n |-> n - i + 1]]

HistoryOutcomes ==
         {[frame |-> RawFrame(n)] : n \in 0..2}
    \cup {[raises |-> r, text |-> t] :
             r \in {"ValueError", "ConnectionError", "Timeout", "Exception"}, t \in ProviderTexts}

Intervals == {"daily", "weekly", "monthly"}

(***************************************************************************)
(* The fetch functions applied to drawn arguments.                         *)
(***************************************************************************)
SymChars == {"A", "1", ".", "-", "$", " "}
Symbols == SeqsUpTo(SymChars, MaxSymLen)

\* No function applied yet
PureStart ==
    /\ p_op = "none"
    /\ p_args = None
    /\ p_result = None

\* Before the session's first script run: the widgets hold their defaults (lines 103-138)
NoRun == [main |-> FALSE]

SessionStart ==
    /\ pc = "start"
    /\ symbol_text = <<"I", "B", "M">>
    /\ period_choice = "3m"
    /\ interval_choice = "daily"
    /\ search_button = FALSE
    /\ first_load = FALSE
    /\ cache = {}
    /\ now = 0
    /\ clicks = 0
    /\ run = NoRun

Init == PureStart /\ SessionStart

ApplyGetStockPrice ==
    /\ p_op = "none"
    /\ UNCHANGED svars
    /\ p_op' = "get_stock_price"
    /\ \E symbol \in Symbols :
          \E reply \in (IF get_stock_price_validate(symbol) # None
                        THEN {NoReply} ELSE QuoteReplies(symbol)) :
             /\ p_args' = [symbol |-> symbol, reply |-> reply]
             /\ p_result' = get_stock_price(symbol, reply)

ApplyGetCompanyOverview ==
    /\ p_op = "none"
    /\ UNCHANGED svars
    /\ p_op' = "get_company_overview"
    /\ \E symbol \in Symbols :
          \E reply \in (IF IsBlank(symbol) THEN {NoReply} ELSE OverviewReplies(symbol)) :
             /\ p_args' = [symbol |-> symbol, reply |-> reply]
             /\ p_result' = get_company_overview(symbol, reply)

ApplyGetHistoricalData ==
    /\ p_op = "none"
    /\ UNCHANGED svars
    /\ p_op' = "get_historical_data"
    /\ \E symbol \in Symbols, interval \in Intervals \cup {"hourly"} :
          \E outcome \in (IF IsBlank(symbol) THEN {NoReply}
                          ELSE IF interval \notin Intervals
                          THEN {NoReply, [init_exc |-> "Exception"]}
                          ELSE HistoryOutcomes \cup {[init_exc |-> "Exception"]}) :
             /\ p_args' = [symbol |-> symbol, interval |-> interval, reply |-> outcome]
             /\ p_result' = get_historical_data(symbol, interval, outcome)

FetchNext ==
    \/ ApplyGetStockPrice
    \/ ApplyGetCompanyOverview
    \/ ApplyGetHistoricalData

SpecFetch == Init /\ [][FetchNext]_vars

(***************************************************************************)
(* filter_by_period applied to drawn arguments.                            *)
(***************************************************************************)
\* The longest series filter_by_period is applied to
MaxRows == 1261

\* A DataFrame of n rows as get_historical_data returns it
Frame(n) == rename(RawFrame(n))

Periods == {"1d", "5d", "1m", "3m", "6m", "1y", "5y"}
PeriodRows == {1, 5, 21, 63, 126, 252, 1260}

\* Series lengths around every period's row count
FrameLengths == {n \in 0..MaxRows : \E r \in PeriodRows : n \in {0, r - 1, r, r + 1, MaxRows}}

ApplyFilterByPeriod ==
    /\ p_op = "none"
    /\ UNCHANGED svars
    /\ p_op' = "filter_by_period"
    /\ \E data \in {None} \cup {Frame(n) : n \in FrameLengths},
          period \in Periods \cup {"max", "2y"} :
             /\ p_args' = [data |-> data, period |-> period]
             /\ p_result' = filter_by_period(data, period)

FilterNext == ApplyFilterByPeriod

SpecFilter == Init /\ [][FilterNext]_vars

(***************************************************************************)
(* st.cache_data(ttl=...): one entry per function and arguments, holding   *)
(* the returned pair and the time it was stored; an entry is served while  *)
(* its age is below the function's ttl.                                    *)
(***************************************************************************)
QuoteTTL == 60
HistoryTTL == 300
OverviewTTL == 86400

TTL(fn) ==
    CASE fn = "get_stock_price"      -> QuoteTTL
      [] fn = "get_historical_data"  -> HistoryTTL
      [] fn = "get_company_overview" -> OverviewTTL

SameCall(e, fn, args) == e.fn = fn /\ e.args = args

\* The entries of c that a call of fn(args) at time t is served from
Fresh(c, fn, args, t) == {e \in c : SameCall(e, fn, args) /\ t - e.at < TTL(fn)}

\* What a call served from entry e hands back
Served(c, e) ==
    [value |-> e.value, error |-> e.error, hit |-> TRUE, net |-> 0, cache |-> c]

\* What a call that ran the body hands back, the pair stored in place of any older one
Stored(c, fn, args, t, computed) ==
    [value |-> computed.value, error |-> computed.error, hit |-> FALSE, net |-> computed.net,
     cache |-> {e \in c : ~SameCall(e, fn, args)}
                 \cup {[fn |-> fn, args |-> args, value |-> computed.value,
                        error |-> computed.error, at |-> t]}]

\* A call of the decorated fn(args) at time t; `computed` is what its body returns if run
cached_call(c, fn, args, t, computed) ==
    IF Fresh(c, fn, args, t) # {}
    THEN Served(c, CHOOSE e \in Fresh(c, fn, args, t) : TRUE)
    ELSE Stored(c, fn, args, t, computed)

(***************************************************************************)
(* One run of the script.  r is the run so far: what it has bound, called, *)
(* shown, and the exception that ended it ("none" while it goes on).       *)
(***************************************************************************)
\* The functions the script has bound when it reaches line 511
DefinedAtMain ==
    {"safe_api_call", "get_stock_price", "get_historical_data", "get_company_overview",
     "filter_by_period", "create_stock_chart"}

Show(r, item) == [r EXCEPT !.shown = Append(@, item)]

\* Record a call of a decorated fetch function and what it did
Called(r, endpoint, call) ==
    [r EXCEPT !.cache = call.cache,
              !.served = IF call.hit THEN Append(@, endpoint) ELSE @,
              !.calls = IF call.net > 0 THEN Append(@, endpoint) ELSE @]

\* display_stock_guide() at lines 519, 522, 536 and 669; the def is at line 672
call_display_stock_guide(r) ==
    IF "display_stock_guide" \in r.defined
    THEN Show(r, [w |-> "guide"])
    ELSE [r EXCEPT !.fault = "NameError"]

\* Line 520: the symbol passes the main flow's character check
main_symbol_chars_ok(symbol) ==
    ~(~isalnum(symbol) /\ "-" \notin Range(symbol) /\ "." \notin Range(symbol))

\* Lines 529-538: the guidance chosen for a quote error already shown
price_error_guidance(r, msg) ==
    IF LowerContains(msg, "network") \/ LowerContains(msg, "connect")
    THEN Show(r, [w |-> "warning", about |-> "network"])
    ELSE IF LowerContains(msg, "timeout")
    THEN Show(r, [w |-> "warning", about |-> "timeout"])
    ELSE IF LowerContains(msg, "invalid symbol") \/ LowerContains(msg, "not found")
    THEN call_display_stock_guide(Show(r, [w |-> "warning", about |-> "spelling"]))
    ELSE IF Contains(msg, "API call frequency") \/ LowerContains(msg, "rate limit")
    THEN Show(r, [w |-> "warning", about |-> "rate limit"])
    ELSE r

\* Lines 527-538: the quote error and its guidance
show_price_error(r, msg) ==
    price_error_guidance(Show(r, [w |-> "error", msg |-> msg]), msg)

\* Lines 527-539 and 666-669: the branch taken on what get_stock_price returned
price_branches(r, call) ==
    IF Truthy(call.error)
    THEN show_price_error([r EXCEPT !.branch = "quote_error"], call.error.msg)
    ELSE IF call.value # None
    THEN [r EXCEPT !.branch = "ok"]
    ELSE call_display_stock_guide(
            Show(Show([r EXCEPT !.branch = "no_data"],
                      [w |-> "error",
                       msg |-> <<Lit("Failed to retrieve stock data. Please check the symbol and try again.")>>]),
                 [w |-> "info",
                  msg |-> <<Lit("Try entering a valid stock symbol like AAPL, MSFT, GOOGL, or IBM.")>>]))

\* Line 525: price_data, price_error = get_stock_price(symbol)
price_fetched(r, call) ==
    price_branches([Called(r, "quote", call) EXCEPT
                        !.price = [value |-> call.value, error |-> call.error]],
                   call)

\* Lines 511-538 and 666-669: validation, the quote fetch, and the branches without a quote
main_flow_quote(r, reply) ==
    IF IsBlank(r.symbol)
    THEN call_display_stock_guide(
            Show([r EXCEPT !.main = TRUE, !.branch = "invalid"],
                 [w |-> "error", msg |-> <<Lit("Error: Please enter a valid stock symbol.")>>]))
    ELSE IF ~main_symbol_chars_ok(r.symbol)
    THEN call_display_stock_guide(
            Show([r EXCEPT !.main = TRUE, !.branch = "invalid"],
                 [w |-> "error",
                  msg |-> <<Lit("Error: Stock symbol should only contain letters, numbers, hyphens, or periods.")>>]))
    ELSE price_fetched([r EXCEPT !.main = TRUE],
                       cached_call(r.cache, "get_stock_price", <<r.symbol>>, r.at,
                                   get_stock_price(r.symbol, reply)))

\* The run goes on into the branch that has a quote
Going(r) == r.branch = "ok" /\ r.fault = "none"

\* Lines 589-610 and 643-665: the overview fields first..last, in order, until one raises
RECURSIVE render_fields(_, _, _, _)
render_fields(r, company_data, first, last) ==
    IF first > last \/ r.fault # "none" THEN r
    ELSE LET fld == OverviewFields[first]
             present == /\ fld.key \in DOMAIN company_data
                        /\ Len(company_data[fld.key]) > 0
                        /\ (fld.guarded => company_data[fld.key] # TextNone)
             v == company_data[fld.key]
             raises == \/ fld.conv = "int" /\ ~IsIntStr(v)
                       \/ fld.conv = "float" /\ ~IsFloatStr(v)
             next == IF ~present THEN r
                     ELSE IF raises THEN [r EXCEPT !.fault = "ValueError"]
                     ELSE Show(r, [w |-> "field", key |-> fld.key, text |-> v])
         IN  render_fields(next, company_data, first + 1, last)

\* Line 549: company_name
company_name(company_data, symbol) ==
    IF company_data # None /\ "Name" \in DOMAIN company_data
    THEN company_data["Name"] ELSE symbol

\* Lines 546-610: the overview warning, the quote box and the fundamentals
overview_fetched(r, call) ==
    IF call.value # None
    THEN render_fields(
            Show(IF Truthy(call.error) /\ ~LowerContains(call.error.msg, "rate limit")
                 THEN Show(r, [w |-> "warning", note |-> call.error.msg]) ELSE r,
                 [w |-> "quote", name |-> company_name(call.value, r.symbol),
                  symbol |-> r.symbol, price |-> r.price.value.price,
                  up |-> r.price.value.change >= 0]),
            call.value, 1, 6)
    ELSE Show(IF Truthy(call.error) /\ ~LowerContains(call.error.msg, "rate limit")
              THEN Show(r, [w |-> "warning", note |-> call.error.msg]) ELSE r,
              [w |-> "quote", name |-> company_name(call.value, r.symbol),
               symbol |-> r.symbol, price |-> r.price.value.price,
               up |-> r.price.value.change >= 0])

\* Line 545: company_data, company_error = get_company_overview(symbol)
overview_called(r, call) ==
    overview_fetched([Called(r, "overview", call) EXCEPT
                          !.company = [value |-> call.value, error |-> call.error]],
                     call)

\* Lines 539-610: the overview fetch, the quote box and the fundamentals
main_flow_overview(r, reply) ==
    IF ~Going(r) THEN r
    ELSE overview_called(r, cached_call(r.cache, "get_company_overview", <<r.symbol>>, r.at,
                                        get_company_overview(r.symbol, reply)))

\* Lines 620-632: the chart of the filtered series
show_chart(r, filtered_data) ==
    IF filtered_data # None /\ Len(filtered_data.index) > 0
    THEN Show(r, [w |-> "chart", rows |-> filtered_data.index])
    ELSE Show(Show(r, [w |-> "error",
                       msg |-> <<Lit("No historical data available for the selected period and interval.")>>]),
              [w |-> "info", msg |-> <<Lit("Try selecting a different time period or interval.")>>])

\* Lines 616-636: what is shown for what get_historical_data returned
history_fetched(r, call) ==
    IF Truthy(call.error)
    THEN Show(Show(r, [w |-> "error",
                       msg |-> <<Lit("Error fetching historical data: ")>> \o call.error.msg]),
              [w |-> "info",
               msg |-> <<Lit("Historical data unavailable. This could be due to API limitations or an invalid symbol.")>>])
    ELSE IF call.value # None
    THEN show_chart(r, filter_by_period(call.value, r.period))
    ELSE Show(Show(r, [w |-> "error", msg |-> <<Lit("Failed to retrieve historical data.")>>]),
              [w |-> "info",
               msg |-> <<Lit("Please check your internet connection and try again later.")>>])

\* Line 614: hist_data, hist_error = get_historical_data(symbol, interval)
history_called(r, call) ==
    history_fetched([Called(r, "history", call) EXCEPT
                         !.hist = [value |-> call.value, error |-> call.error]],
                    call)

\* main_flow_history made only when the overview gave a record
main_flow_history_needs_company(r, outcome) ==
    IF ~Going(r) \/ r.company.value = None THEN r
    ELSE history_called(r, cached_call(r.cache, "get_historical_data",
                                       <<r.symbol, r.interval>>, r.at,
                                       get_historical_data(r.symbol, r.interval, outcome)))

\* Lines 612-636: the history fetch and the chart
main_flow_history(r, outcome) ==
    IF ~Going(r) THEN r
    ELSE history_called(r, cached_call(r.cache, "get_historical_data",
                                       <<r.symbol, r.interval>>, r.at,
                                       get_historical_data(r.symbol, r.interval, outcome)))

\* Lines 638-665: the company box
main_flow_company(r) ==
    IF ~Going(r) \/ r.company.value = None THEN r
    ELSE render_fields(Show(r, [w |-> "about"]), r.company.value, 7, 11)

\* Lines 671-713: the def of display_stock_guide and the footer, reached if nothing raised
script_end(r) ==
    IF r.fault # "none" THEN r
    ELSE Show([r EXCEPT !.defined = @ \cup {"display_stock_guide"}], [w |-> "footer"])

\* The run as the script reaches line 511
RunStart(symbol, per, itv, c, t) ==
    [main |-> FALSE, symbol |-> symbol, period |-> per, interval |-> itv, at |-> t,
     branch |-> "skipped", calls |-> <<>>, served |-> <<>>, shown |-> <<>>,
     fault |-> "none", defined |-> DefinedAtMain, cache |-> c,
     price |-> None, company |-> None, hist |-> None]

(***************************************************************************)
(* The session: the user's interactions, each followed by a script run.    *)
(***************************************************************************)
\* Texts the user types into the symbol input
Texts ==
    {<<"i", "b", "m">>, <<" ">>, <<"b", "r", "k", ".", "b">>, <<"a", "$">>}

\* Replies of the quote endpoint in a session
SessionQuoteReplies(symbol) ==
    {[exc |-> "ConnectionError"], [exc |-> "Timeout"]}
    \cup {[status |-> 200, json |-> j] :
            j \in {QuoteBody(<<GoodQuote(symbol)>>, <<>>, <<>>, <<>>),
                   QuoteBody(<<>>, <<InvalidCallText>>, <<>>, <<>>),
                   QuoteBody(<<>>, <<>>, <<FrequencyText>>, <<>>),
                   QuoteBody(<< [k \in {"01. symbol"} |-> symbol] >>, <<>>, <<>>, <<>>),
                   QuoteBody(<<>>, << <<>> >>, <<>>, <<>>)}}

\* Replies of the overview endpoint in a session
SessionOverviewReplies(symbol) ==
    {[exc |-> "ConnectionError"]}
    \cup {[status |-> 200, json |-> j] :
            j \in {OverviewBody(<<symbol>>, <<TextName>>, <<>>, <<>>, <<>>, GoodFundamentals),
                   OverviewBody(<<symbol>>, <<TextName>>, <<>>, <<>>, <<>>,
                                [GoodFundamentals EXCEPT !["MarketCapitalization"] = TextNone]),
                   OverviewBody(<<>>, <<>>, <<>>, <<FrequencyText>>, <<>>, <<>>),
                   OverviewBody(<<>>, <<>>, <<>>, <<FrequencyText>>, <<OtherText>>, <<>>)}}

\* What the TimeSeries client does in a session
SessionHistoryOutcomes ==
    {[frame |-> RawFrame(2)], [raises |-> "Exception", text |-> OtherText]}

\* interval_choices offering an intraday interval for the short periods
interval_choices_intraday(per) ==
    IF per \in {"1d", "5d"} THEN <<"hourly">>
    ELSE IF per \in {"1m", "3m"} THEN <<"daily", "weekly">>
    ELSE <<"daily", "weekly", "monthly">>

\* Lines 127-132: the intervals offered for a period
interval_choices(per) ==
    IF per \in {"1d", "5d"} THEN <<"daily">>
    ELSE IF per \in {"1m", "3m"} THEN <<"daily", "weekly">>
    ELSE <<"daily", "weekly", "monthly">>

\* The replies a stage may draw: none when its request is not issued
QuoteDraw(r) ==
    IF /\ ~IsBlank(r.symbol) /\ main_symbol_chars_ok(r.symbol)
       /\ get_stock_price_validate(r.symbol) = None
       /\ Fresh(r.cache, "get_stock_price", <<r.symbol>>, r.at) = {}
    THEN SessionQuoteReplies(r.symbol) ELSE {NoReply}

OverviewDraw(r) ==
    IF Going(r) /\ Fresh(r.cache, "get_company_overview", <<r.symbol>>, r.at) = {}
    THEN SessionOverviewReplies(r.symbol) ELSE {NoReply}

HistoryDraw(r) ==
    IF Going(r) /\ Fresh(r.cache, "get_historical_data", <<r.symbol, r.interval>>, r.at) = {}
    THEN SessionHistoryOutcomes ELSE {NoReply}

\* What a finished run leaves behind
Finish(r) ==
    /\ pc' = "idle"
    /\ cache' = r.cache
    /\ first_load' = (first_load \/ r.main)
    /\ run' = [main |-> r.main, symbol |-> r.symbol, period |-> r.period,
               interval |-> r.interval, branch |-> r.branch, calls |-> r.calls,
               served |-> r.served, shown |-> r.shown, fault |-> r.fault,
               price |-> r.price, company |-> r.company, hist |-> r.hist]

\* The run from the history fetch to the end of the script
RunHistory(r) ==
    \E h \in HistoryDraw(r) :
        Finish(script_end(main_flow_company(main_flow_history(r, h))))

\* RunOverview with the history column filled before the overview is fetched
RunOverview_history_first(r) ==
    \E h \in HistoryDraw(r) :
        \E o \in OverviewDraw(main_flow_history(r, h)) :
            Finish(script_end(main_flow_company(
                main_flow_overview(main_flow_history(r, h), o))))

\* The run from the overview fetch on
RunOverview(r) ==
    \E o \in OverviewDraw(r) : RunHistory(main_flow_overview(r, o))

\* The run from line 511 on when the main flow is entered
RunMain(r) ==
    \E q \in QuoteDraw(r) : RunOverview(main_flow_quote(r, q))

\* Script with the main flow entered also when the symbol input has changed
Script_on_symbol_change(txt, per, itv, clicked) ==
    /\ symbol_text' = txt
    /\ period_choice' = per
    /\ interval_choice' = itv
    /\ search_button' = clicked
    /\ IF ~(clicked \/ ~first_load \/ txt # symbol_text)
       THEN Finish(script_end(RunStart(upper(txt), per, itv, cache, now)))
       ELSE RunMain(RunStart(upper(txt), per, itv, cache, now))

\* One run of the script (lines 1-713) with the widgets as given
Script(txt, per, itv, clicked) ==
    /\ symbol_text' = txt
    /\ period_choice' = per
    /\ interval_choice' = itv
    /\ search_button' = clicked
    /\ IF ~(clicked \/ ~first_load)
       THEN Finish(script_end(RunStart(upper(txt), per, itv, cache, now)))
       ELSE RunMain(RunStart(upper(txt), per, itv, cache, now))

\* The session opens: the first run of the script
FirstLoad ==
    /\ pc = "start"
    /\ Script(symbol_text, period_choice, interval_choice, FALSE)
    /\ UNCHANGED <<now, clicks, pvars>>

ChangeSymbol ==
    /\ pc = "idle"
    /\ \E txt \in Texts \ {symbol_text} : Script(txt, period_choice, interval_choice, FALSE)
    /\ UNCHANGED <<now, clicks, pvars>>

\* A period with other interval choices makes the interval selectbox a new widget
ChangePeriod ==
    /\ pc = "idle"
    /\ \E per \in Periods \ {period_choice} :
          Script(symbol_text, per,
                 IF interval_choices(per) = interval_choices(period_choice)
                 THEN interval_choice ELSE interval_choices(per)[1],
                 FALSE)
    /\ UNCHANGED <<now, clicks, pvars>>

ChangeInterval ==
    /\ pc = "idle"
    /\ \E i \in 1..Len(interval_choices(period_choice)) :
          /\ interval_choices(period_choice)[i] # interval_choice
          /\ Script(symbol_text, period_choice, interval_choices(period_choice)[i], FALSE)
    /\ UNCHANGED <<now, clicks, pvars>>

ClickButton ==
    /\ pc = "idle"
    /\ clicks < MaxClicks
    /\ clicks' = clicks + 1
    /\ Script(symbol_text, period_choice, interval_choice, TRUE)
    /\ UNCHANGED <<now, pvars>>

\* Instants at which the session is observed, around each ttl
Instants == {0, QuoteTTL - 1, QuoteTTL, HistoryTTL, OverviewTTL}

Tick ==
    /\ pc = "idle"
    /\ \E t \in Instants : t > now /\ now' = t
    /\ UNCHANGED <<pc, symbol_text, period_choice, interval_choice, search_button,
                   first_load, cache, clicks, run, pvars>>

Next ==
    \/ FirstLoad
    \/ ChangeSymbol
    \/ ChangePeriod
    \/ ChangeInterval
    \/ ClickButton
    \/ Tick

Spec == Init /\ [][Next]_vars

(***************************************************************************)
(* The claims.                                                             *)
(***************************************************************************)
FetchOps == {"get_stock_price", "get_historical_data", "get_company_overview"}

\* The run took a path of the main flow that has no quote to show
FailurePath == run.main /\ run.branch \in {"invalid", "quote_error", "no_data"}

ShowsError == \E i \in 1..Len(run.shown) : run.shown[i].w = "error"

\* C1: every run of the main flow that takes a failure path (blank symbol, failed
\* character check, quote error, neither data nor error) shows an error message and
\* ends without an unhandled exception, also where it calls display_stock_guide().
C1_FailurePathsComplete ==
    FailurePath => run.fault = "none" /\ ShowsError

\* C2: each fetch function returns either (value, None) with a value, or (None, error)
\* with a non-empty message.
C2_PairWellFormed ==
    p_op \in FetchOps =>
        \/ p_result.value # None /\ p_result.error = None
        \/ p_result.value = None /\ p_result.error # None /\ Len(p_result.error.msg) > 0

AllowedSymbolChars == LowerLetters \cup UpperLetters \cup Digits \cup {"-", "."}

\* Empty, whitespace only, or holding a character outside letters, digits, '-', '.'
BadSymbol(symbol) ==
    IsBlank(symbol) \/ \E i \in 1..Len(symbol) : symbol[i] \notin AllowedSymbolChars

IsValidationError(error) ==
    /\ error # None
    /\ error.msg \in {<<Lit("Error: Please enter a valid stock symbol.")>>,
                      <<Lit("Error: Stock symbol should only contain letters and numbers.")>>}

\* C3: for a symbol that is empty, whitespace only or holds a character outside
\* letters, digits, hyphen and period, every fetch function returns a validation
\* error and issues no request.
C3_BadSymbolNoRequest ==
    (p_op \in FetchOps /\ BadSymbol(p_args.symbol)) =>
        IsValidationError(p_result.error) /\ p_result.net = 0

\* Non-empty and made only of letters, digits, hyphens and periods
GoodSymbol(symbol) ==
    Len(symbol) > 0 /\ \A i \in 1..Len(symbol) : symbol[i] \in AllowedSymbolChars

MainAccepts(symbol) == ~IsBlank(symbol) /\ main_symbol_chars_ok(symbol)
PriceAccepts(symbol) == get_stock_price_validate(symbol) = None

\* C4: a non-empty symbol of letters, digits, hyphens and periods passes the main
\* flow's check and get_stock_price's check and reaches the quote request, and the
\* two checks accept the same symbols.
C4_ChecksAgree ==
    p_op = "get_stock_price" =>
        /\ GoodSymbol(p_args.symbol) =>
              MainAccepts(p_args.symbol) /\ PriceAccepts(p_args.symbol) /\ p_result.net = 1
        /\ MainAccepts(p_args.symbol) <=> PriceAccepts(p_args.symbol)

\* get_stock_price was applied to a reply whose body is a JSON object
QuoteObjectReply ==
    /\ p_op = "get_stock_price"
    /\ p_result.net = 1
    /\ "json" \in DOMAIN p_args.reply
    /\ "t" \in DOMAIN p_args.reply.json
    /\ IsDict(p_args.reply.json)

\* The body has no 'Global Quote' the code builds a quote or a not-found error from:
\* none, an empty one, or one of several keys without the price
NoUsableQuote(data) ==
    \/ "Global Quote" \notin Keys(data)
    \/ DOMAIN data.d["Global Quote"] = {}
    \/ /\ Cardinality(DOMAIN data.d["Global Quote"]) > 1
       /\ "05. price" \notin DOMAIN data.d["Global Quote"]

InvalidSymbolMsg(symbol) ==
    <<Lit("Error: Invalid symbol '"), Sym(symbol), Lit("'. Please enter a valid stock symbol.")>>

QuoteRateLimitMsg ==
    <<Lit("Rate limit reached. Alpha Vantage allows only 5 API calls per minute on the free tier. Please wait a minute and try again.")>>

\* C5 as stated: without a usable 'Global Quote', an "Error Message" containing
\* "Invalid API call" gives the invalid-symbol error and one containing
\* "API call frequency" gives the rate-limit error.
C5_ErrorMessageClassified ==
    (QuoteObjectReply /\ NoUsableQuote(p_args.reply.json)
        /\ "Error Message" \in Keys(p_args.reply.json)) =>
        /\ Contains(p_args.reply.json.d["Error Message"], "Invalid API call") =>
              p_result.error.msg = InvalidSymbolMsg(p_args.symbol)
        /\ Contains(p_args.reply.json.d["Error Message"], "API call frequency") =>
              p_result.error.msg = QuoteRateLimitMsg

\* C5 amended: without a usable 'Global Quote', an "Error Message" containing
\* "Invalid API call" gives the invalid-symbol error; any other "Error Message", also
\* one containing "API call frequency", is returned as it is; the rate-limit error is
\* given for a "Note" containing "API call frequency" when there is no "Error Message".
C5_EnvelopeClassified ==
    (QuoteObjectReply /\ NoUsableQuote(p_args.reply.json)) =>
        /\ ("Error Message" \in Keys(p_args.reply.json)
              /\ Contains(p_args.reply.json.d["Error Message"], "Invalid API call")) =>
              p_result.error.msg = InvalidSymbolMsg(p_args.symbol)
        /\ ("Error Message" \in Keys(p_args.reply.json)
              /\ ~Contains(p_args.reply.json.d["Error Message"], "Invalid API call")) =>
              p_result.error.msg = p_args.reply.json.d["Error Message"]
        /\ ("Error Message" \notin Keys(p_args.reply.json)
              /\ "Note" \in Keys(p_args.reply.json)
              /\ Contains(p_args.reply.json.d["Note"], "API call frequency")) =>
              p_result.error.msg = QuoteRateLimitMsg

\* An "Error Message" about the call frequency came back as the provider wrote it
C5_Witness ==
    /\ QuoteObjectReply
    /\ Keys(p_args.reply.json) = {"Error Message"}
    /\ p_args.reply.json.d["Error Message"] = FrequencyText
    /\ p_result.error.msg = FrequencyText

\* get_company_overview was applied to a reply whose body is a JSON object
OverviewObjectReply ==
    /\ p_op = "get_company_overview"
    /\ p_result.net = 1
    /\ "json" \in DOMAIN p_args.reply
    /\ "t" \in DOMAIN p_args.reply.json
    /\ IsDict(p_args.reply.json)

OverviewRateLimitMsg ==
    <<Lit("Rate limit reached. Alpha Vantage allows only 5 API calls per minute on the free tier.")>>

\* C6: for a body that signals rate limiting (a 'Note' containing "API call
\* frequency", no company record and no 'Error Message'), also when the 'Note' is
\* its only key, get_company_overview returns the rate-limit error and not the
\* 'no company information found' error.
C6_RateLimitNotAbsence ==
    (OverviewObjectReply
        /\ "Note" \in Keys(p_args.reply.json)
        /\ Contains(p_args.reply.json.d["Note"], "API call frequency")
        /\ "Error Message" \notin Keys(p_args.reply.json)
        /\ "Symbol" \notin Keys(p_args.reply.json)) =>
        p_result.error.msg = OverviewRateLimitMsg

\* The latest run fetched a company record
HasCompany == run.main /\ run.company # None /\ run.company.value # None

FieldShown(key) ==
    \E i \in 1..Len(run.shown) : run.shown[i].w = "field" /\ run.shown[i].key = key

\* C7: an overview field the main flow renders whose value is the string "None" is
\* skipped, and the run ends without a fault.
C7_NoneSentinelSkipped ==
    HasCompany =>
        \A key \in OverviewFieldKeys :
            (key \in DOMAIN run.company.value /\ run.company.value[key] = TextNone) =>
                ~FieldShown(key) /\ run.fault = "none"

\* The rows the claim gives each named period
PeriodCount(per) ==
    CASE per = "1d" -> 1 [] per = "5d" -> 5 [] per = "1m" -> 21 [] per = "3m" -> 63
      [] per = "6m" -> 126 [] per = "1y" -> 252 [] per = "5y" -> 1260

Min(a, b) == IF a < b THEN a ELSE b

\* C8: for a named period filter_by_period returns the first min(N, len) rows in
\* their order, N = 1, 5, 21, 63, 126, 252, 1260; for any other period the series
\* unchanged; for None, None.
C8_FilterLeadingRows ==
    p_op = "filter_by_period" =>
        IF p_args.data = None THEN p_result = None
        ELSE IF p_args.period \in Periods
        THEN /\ p_result.columns = p_args.data.columns
             /\ Len(p_result.index) = Min(PeriodCount(p_args.period), Len(p_args.data.index))
             /\ \A i \in 1..Len(p_result.index) : p_result.index[i] = p_args.data.index[i]
        ELSE p_result = p_args.data

\* A series longer than a month was cut to 21 rows
C8_Witness ==
    /\ p_op = "filter_by_period"
    /\ p_args.data # None
    /\ p_args.period = "1m"
    /\ Len(p_args.data.index) > 21
    /\ Len(p_result.index) = 21

CallRank(endpoint) ==
    CASE endpoint = "quote" -> 1 [] endpoint = "overview" -> 2 [] endpoint = "history" -> 3

\* C9: in a run the requests go out in the order quote, overview, history, each at
\* most once; overview and history only after the quote fetch returned data and no
\* error; after a quote error none.
C9_CallOrder ==
    run.main =>
        /\ \A i, j \in 1..Len(run.calls) :
              i < j => CallRank(run.calls[i]) < CallRank(run.calls[j])
        /\ (\E i \in 1..Len(run.calls) : run.calls[i] \in {"overview", "history"}) =>
              run.price # None /\ run.price.value # None /\ run.price.error = None
        /\ (run.price # None /\ run.price.error # None) =>
              \A i \in 1..Len(run.calls) : run.calls[i] = "quote"

\* A run that issued all three requests
C9_Witness ==
    run.main /\ run.calls = <<"quote", "overview", "history">>

\* C10: a click of 'Get Stock Info' bypasses the cache: the run it starts serves no
\* stored result, a stored error included.
C10_ClickBypassesCache ==
    (search_button /\ run.main) => run.served = <<>>

\* The latest run fetched the quote and got an error back
QuoteFailed == run.main /\ run.price # None /\ Truthy(run.price.error)

SpellingShown ==
    \E i \in 1..Len(run.shown) :
        /\ run.shown[i].w = "warning"
        /\ "about" \in DOMAIN run.shown[i]
        /\ run.shown[i].about = "spelling"

\* "Error: Invalid symbol '...'" of line 225
IsInvalidSymbolError(error) ==
    error.msg # <<>> /\ error.msg[1] = Lit("Error: Invalid symbol '")

\* "Error: No data found for symbol '...'" of line 203
IsNotFoundError(error) ==
    error.msg # <<>> /\ error.msg[1] = Lit("Error: No data found for symbol '")

\* C11: after a quote error the main flow shows the 'check the spelling' guidance
\* exactly when the error is the invalid-symbol error or the not-found error.
C11_SpellingGuidance ==
    QuoteFailed =>
        (SpellingShown <=>
            IsInvalidSymbolError(run.price.error) \/ IsNotFoundError(run.price.error))

\* get_stock_price got an HTTP response back
QuoteHttpReply ==
    /\ p_op = "get_stock_price"
    /\ p_result.net = 1
    /\ "status" \in DOMAIN p_args.reply

MalformedJsonMsg ==
    <<Lit("Error: Invalid response from Alpha Vantage API. The service might be down.")>>

EmptyBodyMsg ==
    <<Lit("Error: Empty response from Alpha Vantage API. The service might be experiencing issues.")>>

\* C12: a response with a status other than 200 never gives a quote, and its error
\* is neither the malformed-JSON error nor the empty-body error, which a 200 reply
\* with such a body gets.
C12_StatusChecked ==
    QuoteHttpReply =>
        /\ p_args.reply.status # 200 =>
              /\ p_result.value = None
              /\ p_result.error # None
              /\ p_result.error.msg \notin {MalformedJsonMsg, EmptyBodyMsg}
        /\ (p_args.reply.status = 200 /\ "bad" \in DOMAIN p_args.reply.json) =>
              p_result.value = None /\ p_result.error.msg = MalformedJsonMsg
        /\ (p_args.reply.status = 200 /\ "bad" \notin DOMAIN p_args.reply.json
               /\ ~JsonTruthy(p_args.reply.json)) =>
              p_result.value = None /\ p_result.error.msg = EmptyBodyMsg

NotFoundMsg(symbol) ==
    <<Lit("Error: No data found for symbol '"), Sym(symbol),
      Lit("'. Please check if the symbol is correct.")>>

\* C13: a body whose 'Global Quote' has at most one key and no price field, empty or
\* not and whatever the other top-level keys, gives the not-found error.
C13_SparseQuoteNotFound ==
    (QuoteObjectReply
        /\ "Global Quote" \in Keys(p_args.reply.json)
        /\ Cardinality(DOMAIN p_args.reply.json.d["Global Quote"]) <= 1
        /\ "05. price" \notin DOMAIN p_args.reply.json.d["Global Quote"]) =>
        p_result.error.msg = NotFoundMsg(p_args.symbol)

\* The body get_company_overview takes for the company's record: a JSON object of
\* more than one key whose 'Symbol' is the symbol asked for
OverviewMatches ==
    /\ "json" \in DOMAIN p_args.reply
    /\ "t" \in DOMAIN p_args.reply.json
    /\ IsDict(p_args.reply.json)
    /\ Cardinality(Keys(p_args.reply.json)) > 1
    /\ "Symbol" \in Keys(p_args.reply.json)
    /\ p_args.reply.json.d["Symbol"] = p_args.symbol

\* C14: get_company_overview returns a record, the body itself, only for a body of
\* more than one key whose 'Symbol' equals the requested symbol; every other body
\* gives (None, error).
C14_OverviewRecordOnlyOnMatch ==
    p_op = "get_company_overview" =>
        /\ p_result.value # None <=> OverviewMatches
        /\ p_result.value # None =>
              p_result.value = p_args.reply.json.d /\ p_result.error = None
        /\ p_result.value = None => p_result.error # None

\* A body of several keys about another symbol was refused
C14_Witness ==
    /\ OverviewObjectReply
    /\ Cardinality(Keys(p_args.reply.json)) > 1
    /\ "Symbol" \in Keys(p_args.reply.json)
    /\ p_args.reply.json.d["Symbol"] # p_args.symbol
    /\ p_result.value = None
    /\ p_result.error # None

\* The latest run got a quote and then an error from the overview fetch
OverviewFailed ==
    /\ run.main
    /\ run.price # None /\ run.price.value # None /\ run.price.error = None
    /\ run.company # None /\ run.company.value = None /\ run.company.error # None

QuoteShownAs(name) ==
    \E i \in 1..Len(run.shown) : run.shown[i].w = "quote" /\ run.shown[i].name = name

\* get_historical_data was called in the latest run, answered by a request or the cache
HistoryFetched ==
    /\ run.hist # None
    /\ \/ \E i \in 1..Len(run.calls) : run.calls[i] = "history"
       \/ \E i \in 1..Len(run.served) : run.served[i] = "history"

\* C15: in a run whose quote fetch succeeds and whose overview fetch returns an
\* error, the quote is shown under the symbol as its name, the history fetch is
\* made, and the run ends without a fault.
C15_OverviewFailureDegrades ==
    OverviewFailed =>
        QuoteShownAs(run.symbol) /\ HistoryFetched /\ run.fault = "none"

\* After a failed overview the history request went out and its chart was shown
C15_Witness ==
    /\ OverviewFailed
    /\ QuoteShownAs(run.symbol)
    /\ \E i \in 1..Len(run.calls) : run.calls[i] = "history"
    /\ \E i \in 1..Len(run.shown) : run.shown[i].w = "chart"

\* The step is a run of the script (time passing alone is not)
ScriptRan == pc' = "idle" /\ now' = now

\* C16: the main flow runs on the first run of the script and afterwards only on
\* runs started by a click; 'first_load' stays set; a rerun caused by a change of
\* the symbol, period or interval calls no fetch function.
C16_MainFlowGate ==
    [][/\ first_load => first_load'
       /\ (ScriptRan /\ ~first_load) => run'.main /\ first_load'
       /\ (ScriptRan /\ first_load /\ search_button') => run'.main
       /\ (ScriptRan /\ first_load /\ ~search_button') =>
              /\ ~run'.main
              /\ run'.calls = <<>> /\ run'.served = <<>>
              /\ run'.price = None /\ run'.company = None /\ run'.hist = None
              /\ cache' = cache]_vars

\* The symbol was changed after the first run and the rerun skipped the main flow
C16_Witness ==
    /\ pc = "idle"
    /\ first_load
    /\ ~search_button
    /\ symbol_text # <<"I", "B", "M">>
    /\ ~run.main
    /\ run.calls = <<>>

\* The intervals the claim allows each period
AllowedIntervals(per) ==
    CASE per \in {"1d", "5d"} -> {"daily"}
      [] per \in {"1m", "3m"} -> {"daily", "weekly"}
      [] OTHER                -> {"daily", "weekly", "monthly"}

\* C17: the interval selected, and the one passed to get_historical_data, is one the
\* selected period allows, and get_historical_data never answers 'Invalid interval'.
C17_IntervalAllowed ==
    /\ interval_choice \in AllowedIntervals(period_choice)
    /\ (run.main /\ run.hist # None) =>
          /\ run.period = period_choice
          /\ run.interval = interval_choice
          /\ run.interval \in AllowedIntervals(run.period)
          /\ run.hist.error # None =>
                (run.hist.error.msg = <<>> \/ run.hist.error.msg[1] # Lit("Invalid interval: "))

\* The monthly series of a long period was requested
C17_Witness ==
    /\ run.main
    /\ run.hist # None
    /\ run.interval = "monthly"
    /\ run.period \in {"6m", "1y", "5y"}
    /\ \E i \in 1..Len(run.calls) : run.calls[i] = "history"

====
